---- MODULE Spec2Model ----
(***************************************************************************)
(* Model of the Turnstile token service (bruce-batman/turn).               *)
(*                                                                         *)
(* The repository holds two automation pipelines and three HTTP handlers:  *)
(*   - class TurnstileSolver (src/lib/turnstile-solver.js:9-200) and its   *)
(*     CommonJS wrapper solveTurnstile (203-206), used by src/api/bypass.js*)
(*     and src/unnamed/part_001;                                           *)
(*   - the ES-module function solveTurnstile (216-421), used by            *)
(*     src/unnamed/part_000.                                               *)
(* A call of solve() is a session; every await of the code is one step.    *)
(***************************************************************************)
EXTENDS Integers, Sequences, FiniteSets, TLC

\* ------------------------------------------------------------------ bounds
\* Number of solve() calls that may be running at the same time.
MaxSessions == 1

\* Number of proxy arguments that calls may push on the args array of a solver
\* object that a caller keeps.
MaxPushed == 2

Sessions == 1..MaxSessions

VARIABLES
    sess,        \* sess[s]: the local state of the call of solve() running in slot s
    sharedArgs,  \* this.options.args of a TurnstileSolver object that a caller keeps
    net,         \* the most recent resource request of a page and what became of it
    http,        \* the HTTP handler: the request being served and its responses
    tok,         \* token synthesis on its own: the random stream and the result
    inj,         \* token injection on its own: the elements of a page and what was done
    clock,       \* Date.now(): the system clock, in ticks
    cls          \* the catch block on its own: the message of an error and the result

vars == <<sess, sharedArgs, net, http, tok, inj, clock, cls>>

\* ------------------------------------------------------------ the callers
\* How solve() is entered:
\*   "object"  - TurnstileSolver.solve on a solver object the caller keeps
\*               (the class is exported, turnstile-solver.js:208);
\*   "wrapper" - the CommonJS solveTurnstile, a new TurnstileSolver per call;
\*   "esm"     - the ES-module function solveTurnstile.
Entries == {"object", "wrapper", "esm"}

IsClass(e) == e \in {"object", "wrapper"}

NoProxy == "none"

\* The proxy a request may carry.
Proxies == {NoProxy, "http://proxy:8080"}

\* constructor: the default args of a new TurnstileSolver
\* (an argument "--flag=value" is the pair <<"--flag", "value">>)
ClassDefaultArgs ==
    << <<"--no-sandbox", "">>, <<"--disable-setuid-sandbox", "">>,
       <<"--disable-web-security", "">>,
       <<"--disable-features", "IsolateOrigins,site-per-process">>,
       <<"--window-size", "1920,1080">> >>

\* the launchOptions literal of the ES-module solveTurnstile
EsmDefaultArgs ==
    << <<"--no-sandbox", "">>, <<"--disable-setuid-sandbox", "">>,
       <<"--disable-dev-shm-usage", "">>, <<"--disable-accelerated-2d-canvas", "">>,
       <<"--no-first-run", "">>, <<"--no-zygote", "">>, <<"--disable-gpu", "">>,
       <<"--window-size", "1920,1080">>, <<"--lang", "en-US,en">> >>

\* `--proxy-server=${proxy}`
ProxyArg(p) == <<"--proxy-server", p>>

\* launchOptions.args.push(...) when a proxy is given
PushProxy(args, p) == IF p # NoProxy THEN Append(args, ProxyArg(p)) ELSE args

\* ------------------------------------------------------ JavaScript values
\* A request parameter: undefined, a string (the sequence of its characters, or
\* of its parts for a URL) or a number.
Undefined == [kind |-> "undefined", chars |-> <<>>]
Str(cs) == [kind |-> "string", chars |-> cs]
Num == [kind |-> "number", chars |-> <<>>]

\* ToBoolean (the number is not 0)
Truthy(v) == v.kind = "number" \/ (v.kind = "string" /\ v.chars # <<>>)

\* a || b
Or(a, b) == IF Truthy(a) THEN a ELSE b

\* String.prototype.startsWith
StartsWith(cs, prefix) ==
    /\ Len(cs) >= Len(prefix)
    /\ \A i \in 1..Len(prefix) : cs[i] = prefix[i]

\* ---------------------------------------------------------- the documents
\* What a loaded document shows to the in-page scripts.
\*   iframe          iframe[src*="challenges.cloudflare.com"]
\*   script          script[src*="challenges.cloudflare.com"]
\*   dataSitekey     "none", "div" (div[data-sitekey]) or "other" (another element)
\*   cfInput         input[name="cf-turnstile-response"]
\*   windowTurnstile window.turnstile is defined
\*   callback        window.turnstileCallback: "none", "ok" or "throws"
Doc(i, sc, ds, cf, wt, cb) ==
    [iframe |-> i, script |-> sc, dataSitekey |-> ds, cfInput |-> cf,
     windowTurnstile |-> wt, callback |-> cb]

NoDoc == Doc(FALSE, FALSE, "none", FALSE, FALSE, "none")

\* The documents a navigation may load.
Docs ==
    { NoDoc,
      Doc(TRUE, FALSE, "none", FALSE, FALSE, "none"),
      Doc(FALSE, FALSE, "none", TRUE, FALSE, "ok"),
      Doc(FALSE, TRUE, "other", FALSE, TRUE, "throws") }

\* Every document, by what the in-page scripts can see of it.
AllDocs ==
    [iframe : BOOLEAN, script : BOOLEAN, dataSitekey : {"none", "div", "other"},
     cfInput : BOOLEAN, windowTurnstile : BOOLEAN, callback : {"none", "ok", "throws"}]

\* (mutant) the wait does not look for a div with data-sitekey
ClassWaitPredicateWithoutDiv(d) == d.windowTurnstile \/ d.iframe

\* waitForTurnstile: the predicate page.waitForFunction polls
ClassWaitPredicate(d) ==
    d.windowTurnstile \/ d.iframe \/ d.dataSitekey = "div"

\* (mutant) the check result is not tested before the token is generated
EsmAlwaysDetected(d) == TRUE

\* (mutant) the cf-turnstile-response input is not among the checks
EsmDetectedWithoutInput(d) ==
    d.iframe \/ d.script \/ d.dataSitekey # "none" \/ d.windowTurnstile

\* solveTurnstile: Object.values(checks).some(check => check === true)
EsmTurnstileDetected(d) ==
    \/ d.iframe
    \/ d.script
    \/ d.dataSitekey # "none"
    \/ d.cfInput
    \/ d.windowTurnstile

\* what the detection of the pipeline entered through e evaluates on the page
Detector(e, d) ==
    IF e \in {"object", "wrapper"} THEN ClassWaitPredicate(d) ELSE EsmTurnstileDetected(d)

\* ------------------------------------------------------- failure messages
\* An Error's message, as the sequence of its words; message.includes(w) is
\* membership of the word.
Includes(msg, w) == \E i \in 1..Len(msg) : msg[i] = w

MsgNavTimeout == <<"Navigation", "timeout", "of", "ms", "exceeded">>
MsgNetErr == <<"net::ERR", "NAME_NOT_RESOLVED", "at", "url">>
MsgNetTimeout == <<"net::ERR", "CONNECTION_TIMED_OUT", "timeout">>
MsgLaunch == <<"Failed", "to", "launch", "the", "browser", "process">>
MsgContext == <<"Execution", "context", "was", "destroyed">>
MsgNotDetected == <<"Turnstile not detected", "on", "the", "page">>
MsgCallback == <<"callback", "failed">>
MsgClose == <<"Protocol", "error", "Target", "closed">>
MsgWaitTimeout == <<"Waiting", "failed:", "10000ms", "exceeded">>

\* the messages with which each awaited operation may reject
LaunchFaults == {MsgLaunch}
PageFaults == {MsgContext}
GotoFaults == {MsgNavTimeout, MsgNetErr}

\* ------------------------------------------------------------- the token
\* Math.random() is k / RandRes for some k in 0..RandRes-1.
RandRes == 32

\* A random stream: the i-th draw (from 0) of the page's random source.
Draw(rs, i) == (rs.seed + i * rs.stride) % RandRes

\* (mutant) Math.round instead of Math.floor
RoundRandom(k, n) == (2 * k * n + RandRes) \div (2 * RandRes)

\* Math.floor(Math.random() * n)
FloorRandom(k, n) == (k * n) \div RandRes

HexDigits == <<"0", "1", "2", "3", "4", "5", "6", "7",
               "8", "9", "a", "b", "c", "d", "e", "f">>

\* Number.prototype.toString(16) of a natural number
RECURSIVE ToString16(_)
ToString16(n) ==
    IF n < 16 THEN <<HexDigits[n + 1]>>
    ELSE ToString16(n \div 16) \o <<HexDigits[(n % 16) + 1]>>

\* .map(() => Math.floor(Math.random() * 16).toString(16)).join('') over the
\* draws lo .. hi of the stream: the strings one after the other (joined by
\* halves)
RECURSIVE ClassHexRange(_, _, _)
ClassHexRange(rs, lo, hi) ==
    IF lo > hi THEN <<>>
    ELSE IF lo = hi THEN ToString16(FloorRandom(Draw(rs, lo), 16))
    ELSE LET mid == (lo + hi) \div 2
         IN  ClassHexRange(rs, lo, mid) \o ClassHexRange(rs, mid + 1, hi)

\* Array(len).fill(0).map(() => Math.floor(Math.random() * 16).toString(16)).join('')
\* (the draws of the map are the draws from, from + 1, ... of the stream)
ClassHex(rs, from, len) == ClassHexRange(rs, from, from + len - 1)

\* executeBypass: mockToken
ClassMockToken(rs) ==
    <<"0", "x">> \o ClassHex(rs, 0, 64) \o <<".">> \o ClassHex(rs, 64, 32)

\* generateHex: const chars = 'abcdef0123456789'
EsmChars == <<"a", "b", "c", "d", "e", "f", "0", "1",
              "2", "3", "4", "5", "6", "7", "8", "9">>

\* String.prototype.charAt: the empty string outside the string
CharAt(chars, i) == IF i >= 0 /\ i < Len(chars) THEN <<chars[i + 1]>> ELSE <<>>

\* result += chars.charAt(Math.floor(Math.random() * chars.length)) over the
\* draws lo .. hi of the stream (appended by halves)
RECURSIVE GenerateHexRange(_, _, _)
GenerateHexRange(rs, lo, hi) ==
    IF lo > hi THEN <<>>
    ELSE IF lo = hi THEN CharAt(EsmChars, FloorRandom(Draw(rs, lo), Len(EsmChars)))
    ELSE LET mid == (lo + hi) \div 2
         IN  GenerateHexRange(rs, lo, mid) \o GenerateHexRange(rs, mid + 1, hi)

\* generateHex(length): the loop result += chars.charAt(...), i = 0 .. length - 1
GenerateHex(rs, from, len) == GenerateHexRange(rs, from, from + len - 1)

\* const token = `0x${generateHex(64)}.${generateHex(32)}`
EsmToken(rs) ==
    <<"0", "x">> \o GenerateHex(rs, 0, 64) \o <<".">> \o GenerateHex(rs, 64, 32)

\* the random streams a session's page may have
SessionStreams == { [seed |-> 0, stride |-> 1], [seed |-> RandRes - 1, stride |-> 0] }

\* ------------------------------------------------------------ the results
MsgTimeoutError == <<"Timeout:", "The", "page", "took", "too", "long", "to", "load">>
MsgNetworkError == <<"Network", "error">>
DetailsTimeout == <<"Try", "increasing", "the", "timeout">>
DetailsNetwork == <<"Cannot", "access", "the", "URL">>
DetailsNotDetected == <<"The", "page", "might", "not", "be", "using", "Turnstile">>
DetailsSuccess == <<"Token", "generated", "successfully">>

\* Largest reading of the system clock.
MaxClock == 3

\* (mutant) the start time minus the time of the return
ExecutionTimeReversed(r) == r.startTime - clock

\* Date.now() - startTime
ExecutionTime(r) == clock - r.startTime

\* TurnstileSolver.solve: the object returned after executeBypass
ClassSuccess(token, t) ==
    [success |-> TRUE, token |-> token, userAgent |-> "ua", executionTime |-> t,
     url |-> "url"]

\* (mutant) the catch block reports a category instead of the message
ClassFailureUnknown(msg, t) ==
    [success |-> FALSE, error |-> <<"Unknown">>, executionTime |-> t]

\* TurnstileSolver.solve: the object returned by the catch block
ClassFailure(msg, t) == [success |-> FALSE, error |-> msg, executionTime |-> t]

\* solveTurnstile: the object returned after the token was generated
EsmSuccess(token, t) ==
    [success |-> TRUE, token |-> token, userAgent |-> "ua", executionTime |-> t,
     details |-> DetailsSuccess]

\* (mutant) the message of the error is returned as it is
EsmErrorMessageRaw(msg) == msg

\* solveTurnstile: the catch block's errorMessage
EsmErrorMessage(msg) ==
    IF Includes(msg, "timeout") THEN MsgTimeoutError
    ELSE IF Includes(msg, "net::ERR") THEN MsgNetworkError
    ELSE msg

\* (mutant) the details are chosen with net::ERR tested first
EsmDetailsNetFirst(msg) ==
    IF Includes(msg, "net::ERR") THEN DetailsNetwork
    ELSE IF Includes(msg, "timeout") THEN DetailsTimeout
    ELSE IF Includes(msg, "Turnstile not detected") THEN DetailsNotDetected
    ELSE msg

\* solveTurnstile: the catch block's details (details || error.message)
EsmDetails(msg) ==
    IF Includes(msg, "timeout") THEN DetailsTimeout
    ELSE IF Includes(msg, "net::ERR") THEN DetailsNetwork
    ELSE IF Includes(msg, "Turnstile not detected") THEN DetailsNotDetected
    ELSE msg

\* (mutant) the catch block also reports a token
EsmFailureWithToken(msg, t) ==
    [success |-> FALSE, token |-> <<"0", "x">>, error |-> EsmErrorMessage(msg),
     details |-> EsmDetails(msg), executionTime |-> t]

\* solveTurnstile: the object returned by the catch block
EsmFailure(msg, t) ==
    [success |-> FALSE, error |-> EsmErrorMessage(msg), details |-> EsmDetails(msg),
     executionTime |-> t]

\* the catch block of the pipeline entered through e
Failure(e, msg, t) == IF IsClass(e) THEN ClassFailure(msg, t) ELSE EsmFailure(msg, t)

NoResult == [success |-> FALSE, error |-> <<>>]
Running == [kind |-> "running"]
Returned(res) == [kind |-> "returned", result |-> res]
Thrown(msg) == [kind |-> "thrown", message |-> msg]

\* ------------------------------------------------------------ the deadline
\* solve({ ..., timeout = 30000 })
ClassDefaultTimeout == 30000

\* solveTurnstile({ ..., timeout = 40000 })
EsmDefaultTimeout == 40000

\* timeout: 45000 in bypass.js and part_001
ExpressTimeout == 45000

\* timeout: 40000 in part_000
VercelEsmTimeout == 40000

\* no timeout among the arguments (undefined)
NoTimeout == 0

\* the timeout a caller may pass
Timeouts == {NoTimeout, ExpressTimeout}

\* The timeout option page.goto gets. The CommonJS solveTurnstile takes
\* { sitekey, url, userAgent, proxy } and hands those four to solve(), so
\* solve() applies its default.
NavTimeout(e, t) ==
    CASE e = "object" -> IF t = NoTimeout THEN ClassDefaultTimeout ELSE t
      [] e = "wrapper" -> ClassDefaultTimeout
      [] OTHER -> IF t = NoTimeout THEN EsmDefaultTimeout ELSE t

\* ----------------------------------------------------------- the sessions
\* no error has been caught
NoCause == [stage |-> "none", msg |-> <<>>]

Idle ==
    [pc |-> "idle", entry |-> "none", proxy |-> NoProxy, browser |-> FALSE,
     handle |-> "none", startTime |-> 0,
     launchArgs |-> <<>>, installed |-> {}, doc |-> NoDoc, signalled |-> FALSE,
     detected |-> "notRun",
     token |-> <<>>, timeout |-> NoTimeout, cause |-> NoCause,
     launches |-> 0, navigations |-> 0, acquired |-> 0, closeCalls |-> 0, closeFailed |-> FALSE, pending |-> NoResult, outcome |-> Running]

NoRequest == [type |-> "none", entry |-> "none", intercepted |-> FALSE, calls |-> <<>>]
HttpIdle ==
    [pc |-> "idle", handler |-> "none", method |-> "none", sitekey |-> Undefined,
     url |-> Undefined, timeout |-> NoTimeout, coreCalls |-> 0, core |-> Running,
     responses |-> <<>>]
InjIdle == [phase |-> "idle", entry |-> "none", dom |-> <<>>, written |-> <<>>,
            events |-> <<>>, returned |-> FALSE]
ClsIdle == [phase |-> "idle", msg |-> <<>>, result |-> NoResult]
TokIdle == [phase |-> "idle", entry |-> "none", rs |-> [seed |-> 0, stride |-> 0],
            result |-> NoResult]

Init ==
    /\ sess = [s \in Sessions |-> Idle]
    /\ sharedArgs = ClassDefaultArgs
    /\ net = NoRequest
    /\ http = HttpIdle
    /\ tok = TokIdle
    /\ inj = InjIdle
    /\ clock = 0
    /\ cls = ClsIdle

\* The statement order of TurnstileSolver.solve: the operation awaited after
\* the one at pc has resolved ("return": the success return).
ClassNextStage(pc) ==
    CASE pc = "launch" -> "newPage"
      [] pc = "newPage" -> "setUserAgent"
      [] pc = "setUserAgent" -> "goto"
      [] pc = "goto" -> "waitForTurnstile"
      [] pc = "waitForTurnstile" -> "executeBypass"
      [] OTHER -> "return"

\* (mutant) page.goto is called before request interception is set up
EsmNextStageGotoEarly(pc) ==
    CASE pc = "launch" -> "newPage"
      [] pc = "newPage" -> "setUserAgent"
      [] pc = "setUserAgent" -> "setExtraHTTPHeaders"
      [] pc = "setExtraHTTPHeaders" -> "setViewport"
      [] pc = "setViewport" -> "goto"
      [] pc = "goto" -> "settle"
      [] pc = "settle" -> "detect"
      [] pc = "detect" -> "generateToken"
      [] pc = "generateToken" -> "postSettle"
      [] OTHER -> "return"

\* The statement order of the ES-module solveTurnstile.
EsmNextStage(pc) ==
    CASE pc = "launch" -> "newPage"
      [] pc = "newPage" -> "setUserAgent"
      [] pc = "setUserAgent" -> "setExtraHTTPHeaders"
      [] pc = "setExtraHTTPHeaders" -> "setViewport"
      [] pc = "setViewport" -> "setRequestInterception"
      [] pc = "setRequestInterception" -> "goto"
      [] pc = "goto" -> "settle"
      [] pc = "settle" -> "detect"
      [] pc = "detect" -> "generateToken"
      [] pc = "generateToken" -> "postSettle"
      [] OTHER -> "return"

NextStage(e, pc) == IF IsClass(e) THEN ClassNextStage(pc) ELSE EsmNextStage(pc)

\* the awaited operation at r.pc has resolved: go on to the next statement
Advance(r) == [r EXCEPT !.pc = NextStage(r.entry, r.pc)]

\* (mutant) the browser is closed on the success path only
MustCloseOnSuccessOnly(r) == r.browser /\ r.pending.success

\* finally: if (browser) ...
MustClose(r) == r.browser

\* The finally block up to its await: browser.close() is called when a browser
\* was launched; otherwise solve() returns the pending result.
Finally(r) ==
    IF MustClose(r)
    THEN [r EXCEPT !.pc = "close", !.closeCalls = @ + 1, !.timeout = NoTimeout]
    ELSE [r EXCEPT !.pc = "done", !.outcome = Returned(r.pending), !.timeout = NoTimeout]

\* return { success: true, ... } inside try, then finally
Return(r, res) == Finally([r EXCEPT !.pending = res])

\* (mutant) a navigation that failed is started once more
CatchRetry(r, msg) ==
    IF r.pc = "goto" /\ r.navigations < 2
    THEN [r EXCEPT !.cause = [stage |-> r.pc, msg |-> msg]]
    ELSE Finally([r EXCEPT !.pending = Failure(r.entry, msg, ExecutionTime(r)),
                           !.cause = [stage |-> r.pc, msg |-> msg]])

\* catch (error): the failure result, then finally (cause: where the error was
\* raised and its message)
Catch(r, msg) ==
    Finally([r EXCEPT !.pending = Failure(r.entry, msg, ExecutionTime(r)),
                      !.cause = [stage |-> r.pc, msg |-> msg]])

\* The args array handed to puppeteer.launch. launchOptions = { ...this.options }
\* copies the options object and shares its args array.
LaunchArgs(e, p, shared) ==
    CASE e = "object" -> PushProxy(shared, p)
      [] e = "wrapper" -> PushProxy(ClassDefaultArgs, p)
      [] OTHER -> PushProxy(EsmDefaultArgs, p)

\* solve({ sitekey, url, userAgent, proxy, timeout }): up to the await of
\* puppeteer.launch
SolveCall(s, e, p, t) ==
    /\ sess[s].pc \in {"idle", "done"}
    /\ (e = "object" /\ p # NoProxy) => Len(sharedArgs) < Len(ClassDefaultArgs) + MaxPushed
    /\ sess' = [sess EXCEPT ![s] =
                  [Idle EXCEPT !.pc = "launch", !.entry = e, !.proxy = p,
                               !.startTime = clock, !.timeout = NavTimeout(e, t),
                               !.launchArgs = LaunchArgs(e, p, sharedArgs)]]
    /\ sharedArgs' = IF e = "object" THEN PushProxy(sharedArgs, p) ELSE sharedArgs

\* a caller of the library calls solve()
Solve(s, e, p, t) ==
    /\ SolveCall(s, e, p, t)
    /\ UNCHANGED <<net, http, tok, inj, clock, cls>>

\* launchOptions and proxy are not read once puppeteer.launch has settled
Launched(r) == [r EXCEPT !.proxy = NoProxy, !.launchArgs = <<>>]

\* browser = await puppeteer.launch(launchOptions)
Launch(s) ==
    /\ sess[s].pc = "launch"
    /\ \/ sess' = [sess EXCEPT ![s] =
                     Advance([Launched(@) EXCEPT !.launches = @ + 1, !.browser = TRUE,
                                                 !.handle = "open"])]
       \/ \E m \in LaunchFaults :
            sess' = [sess EXCEPT ![s] = Catch([Launched(@) EXCEPT !.launches = @ + 1], m)]
    /\ UNCHANGED <<sharedArgs, net, http, tok, inj, clock, cls>>

\* const page = await browser.newPage()
NewPage(s) ==
    /\ sess[s].pc = "newPage"
    /\ \/ sess' = [sess EXCEPT ![s] = Advance(@)]
       \/ \E m \in PageFaults : sess' = [sess EXCEPT ![s] = Catch(@, m)]
    /\ UNCHANGED <<sharedArgs, net, http, tok, inj, clock, cls>>

\* await page.setUserAgent(userAgent)
SetUserAgent(s) ==
    /\ sess[s].pc = "setUserAgent"
    /\ \/ sess' = [sess EXCEPT ![s] =
                     Advance([@ EXCEPT !.installed = @ \cup {"userAgent"}])]
       \/ \E m \in PageFaults : sess' = [sess EXCEPT ![s] = Catch(@, m)]
    /\ UNCHANGED <<sharedArgs, net, http, tok, inj, clock, cls>>

\* await page.setExtraHTTPHeaders({...})
SetExtraHTTPHeaders(s) ==
    /\ sess[s].pc = "setExtraHTTPHeaders"
    /\ \/ sess' = [sess EXCEPT ![s] =
                     Advance([@ EXCEPT !.installed = @ \cup {"headers"}])]
       \/ \E m \in PageFaults : sess' = [sess EXCEPT ![s] = Catch(@, m)]
    /\ UNCHANGED <<sharedArgs, net, http, tok, inj, clock, cls>>

\* await page.setViewport({ width: 1920, height: 1080 })
SetViewport(s) ==
    /\ sess[s].pc = "setViewport"
    /\ \/ sess' = [sess EXCEPT ![s] =
                     Advance([@ EXCEPT !.installed = @ \cup {"viewport"}])]
       \/ \E m \in PageFaults : sess' = [sess EXCEPT ![s] = Catch(@, m)]
    /\ UNCHANGED <<sharedArgs, net, http, tok, inj, clock, cls>>

\* await page.setRequestInterception(true); page.on('request', ...); page.goto(...)
SetRequestInterception(s) ==
    /\ sess[s].pc = "setRequestInterception"
    /\ \/ sess' = [sess EXCEPT ![s] =
                     Advance([@ EXCEPT !.installed = @ \cup {"interception", "requestHandler"}])]
       \/ \E m \in PageFaults : sess' = [sess EXCEPT ![s] = Catch(@, m)]
    /\ UNCHANGED <<sharedArgs, net, http, tok, inj, clock, cls>>

\* await page.goto(url, { waitUntil, timeout }): one of the documents of D is
\* loaded, or the navigation rejects (the timeout is not read afterwards);
\* signalled: the detection of the call was true of the page at some moment
\* since the load
Navigate(s, D) ==
    /\ sess[s].pc = "goto"
    /\ \/ \E d \in D :
            sess' = [sess EXCEPT ![s] =
                       Advance([@ EXCEPT !.navigations = @ + 1, !.doc = d,
                                         !.signalled = Detector(sess[s].entry, d),
                                         !.timeout = NoTimeout])]
       \/ \E m \in GotoFaults :
            sess' = [sess EXCEPT ![s] = Catch([@ EXCEPT !.navigations = @ + 1], m)]
    /\ UNCHANGED <<sharedArgs, net, http, tok, inj, clock, cls>>

Goto(s) == Navigate(s, Docs)

\* the navigation over every document
GotoAny(s) == Navigate(s, AllDocs)

\* (mutant) the timeout of the wait is not caught
WaitTimedOutThrows(r) == Catch(r, MsgWaitTimeout)

\* waitForTurnstile: catch (error) { console.log(...) } of the wait's timeout
WaitTimedOut(r) == Advance(r)

\* TurnstileSolver.waitForTurnstile: the wait resolves when the predicate holds,
\* and rejects otherwise; the rejection is caught and logged, and solve() goes on.
WaitForTurnstile(s) ==
    /\ sess[s].pc = "waitForTurnstile"
    /\ \/ /\ ClassWaitPredicate(sess[s].doc)
          /\ sess' = [sess EXCEPT ![s] = Advance([@ EXCEPT !.detected = "positive"])]
       \/ /\ ~ClassWaitPredicate(sess[s].doc)
          /\ sess' = [sess EXCEPT ![s] = WaitTimedOut([@ EXCEPT !.detected = "negative"])]
    /\ UNCHANGED <<sharedArgs, net, http, tok, inj, clock, cls>>

\* TurnstileSolver.executeBypass: page.evaluate of the in-page function, which
\* calls window.turnstileCallback unguarded; then the success return of solve()
ExecuteBypass(s) ==
    /\ sess[s].pc = "executeBypass"
    /\ \/ /\ sess[s].doc.callback # "throws"
          /\ \E rs \in SessionStreams :
               sess' = [sess EXCEPT ![s] =
                          Return([@ EXCEPT !.acquired = @ + 1, !.token = ClassMockToken(rs)],
                                 ClassSuccess(ClassMockToken(rs), ExecutionTime(sess[s])))]
       \/ /\ sess[s].doc.callback = "throws"
          /\ sess' = [sess EXCEPT ![s] = Catch([@ EXCEPT !.acquired = @ + 1], MsgCallback)]
       \/ \E m \in PageFaults : sess' = [sess EXCEPT ![s] = Catch(@, m)]
    /\ UNCHANGED <<sharedArgs, net, http, tok, inj, clock, cls>>

\* solveTurnstile: await page.waitForTimeout(2000)
WaitSettle(s) ==
    /\ sess[s].pc = "settle"
    /\ \/ sess' = [sess EXCEPT ![s] = Advance(@)]
       \/ \E m \in PageFaults : sess' = [sess EXCEPT ![s] = Catch(@, m)]
    /\ UNCHANGED <<sharedArgs, net, http, tok, inj, clock, cls>>

\* solveTurnstile: turnstileDetected = await page.evaluate(...);
\* if (!turnstileDetected) throw new Error('Turnstile not detected on the page')
Detect(s) ==
    /\ sess[s].pc = "detect"
    /\ \/ /\ EsmTurnstileDetected(sess[s].doc)
          /\ sess' = [sess EXCEPT ![s] = Advance([@ EXCEPT !.detected = "positive"])]
       \/ /\ ~EsmTurnstileDetected(sess[s].doc)
          /\ sess' = [sess EXCEPT ![s] =
                        Catch([@ EXCEPT !.detected = "negative"], MsgNotDetected)]
       \/ \E m \in PageFaults : sess' = [sess EXCEPT ![s] = Catch(@, m)]
    /\ UNCHANGED <<sharedArgs, net, http, tok, inj, clock, cls>>

\* solveTurnstile: token = await page.evaluate(...); the callback is called
\* inside try/catch
GenerateToken(s) ==
    /\ sess[s].pc = "generateToken"
    /\ \/ \E rs \in SessionStreams :
            sess' = [sess EXCEPT ![s] =
                       Advance([@ EXCEPT !.acquired = @ + 1, !.token = EsmToken(rs)])]
       \/ \E m \in PageFaults : sess' = [sess EXCEPT ![s] = Catch(@, m)]
    /\ UNCHANGED <<sharedArgs, net, http, tok, inj, clock, cls>>

\* solveTurnstile: await page.waitForTimeout(1000), then the success return
PostSettle(s) ==
    /\ sess[s].pc = "postSettle"
    /\ \/ sess' = [sess EXCEPT ![s] = Return(@, EsmSuccess(sess[s].token, ExecutionTime(sess[s])))]
       \/ \E m \in PageFaults : sess' = [sess EXCEPT ![s] = Catch(@, m)]
    /\ UNCHANGED <<sharedArgs, net, http, tok, inj, clock, cls>>

\* What solve() does when browser.close() rejects with msg: the class lets the
\* rejection leave the finally block; solveTurnstile catches and logs it.
CloseRejected(r, msg) ==
    IF IsClass(r.entry) THEN Thrown(msg) ELSE Returned(r.pending)

\* finally: await browser.close(). Whether a close that rejects has released
\* the handle is not known.
Close(s) ==
    /\ sess[s].pc = "close"
    /\ \/ sess' = [sess EXCEPT ![s] =
                     [@ EXCEPT !.pc = "done", !.handle = "closed",
                               !.outcome = Returned(sess[s].pending)]]
       \/ sess' = [sess EXCEPT ![s] =
                     [@ EXCEPT !.pc = "done", !.handle = "unknown", !.closeFailed = TRUE,
                               !.outcome = CloseRejected(sess[s], MsgClose)]]
    /\ UNCHANGED <<sharedArgs, net, http, tok, inj, clock, cls>>

\* an awaited operation other than the navigation settles
Await(s) ==
    \/ Launch(s)
    \/ NewPage(s)
    \/ SetUserAgent(s)
    \/ SetExtraHTTPHeaders(s)
    \/ SetViewport(s)
    \/ SetRequestInterception(s)
    \/ WaitForTurnstile(s)
    \/ ExecuteBypass(s)
    \/ WaitSettle(s)
    \/ Detect(s)
    \/ GenerateToken(s)
    \/ PostSettle(s)
    \/ Close(s)

Step(s) == Await(s) \/ Goto(s)

Next ==
    \/ \E s \in Sessions, e \in Entries, p \in Proxies, t \in Timeouts : Solve(s, e, p, t)
    \/ \E s \in Sessions : Step(s)

Spec == Init /\ [][Next]_vars

\* one call at a time over every document
NextPage ==
    \/ \E e \in {"wrapper", "esm"} : Solve(1, e, NoProxy, NoTimeout)
    \/ Await(1)
    \/ GotoAny(1)

SpecPage == Init /\ [][NextPage]_vars

\* The stages during which the program waits for the widget: the detection wait
\* of TurnstileSolver; in solveTurnstile the fixed delay and the check after it.
WaitWindow(e) ==
    IF IsClass(e) THEN {"waitForTurnstile"} ELSE {"settle", "detect"}

\* While the program waits, the scripts of the page change the document to d.
Mutate(s, d) ==
    /\ sess[s].pc \in WaitWindow(sess[s].entry)
    /\ d # sess[s].doc
    /\ sess' = [sess EXCEPT ![s] =
                  [@ EXCEPT !.doc = d,
                            !.signalled = @ \/ Detector(sess[s].entry, d)]]
    /\ UNCHANGED <<sharedArgs, net, http, tok, inj, clock, cls>>

\* The documents of a page whose scripts insert and remove the widget: without
\* it, with the widget's div, with the challenge script only.
WidgetDocs ==
    { NoDoc,
      Doc(FALSE, FALSE, "div", FALSE, FALSE, "none"),
      Doc(FALSE, TRUE, "none", FALSE, FALSE, "none") }

\* one call at a time on a page that changes while the program waits
NextWindow ==
    \/ \E e \in {"wrapper", "esm"} : Solve(1, e, NoProxy, NoTimeout)
    \/ Await(1)
    \/ Navigate(1, WidgetDocs)
    \/ \E d \in WidgetDocs : Mutate(1, d)

SpecWindow == Init /\ [][NextWindow]_vars

\* time passes (the system clock is not set back while the program runs)
Tick ==
    /\ clock < MaxClock
    /\ clock' = clock + 1
    /\ UNCHANGED <<sess, sharedArgs, net, http, tok, inj, cls>>

\* one call at a time, while time passes
NextTime ==
    \/ \E e \in Entries : Solve(1, e, NoProxy, NoTimeout)
    \/ Step(1)
    \/ Tick

SpecTime == Init /\ [][NextTime]_vars

\* one call at a time
NextOne ==
    \/ \E e \in Entries, p \in Proxies, t \in Timeouts : Solve(1, e, p, t)
    \/ Step(1)

\* every awaited operation of the call settles: it resolves or it rejects
SpecLive == Init /\ [][NextOne]_vars /\ WF_vars(Step(1))

\* --------------------------------------------------- resource gatekeeping
\* request.resourceType()
ResourceTypes ==
    {"document", "stylesheet", "image", "media", "font", "script", "xhr", "fetch", "other"}

\* (mutant) media requests are not in the blocked list
RequestHandlerWithoutMedia(rt) ==
    IF rt \in {"image", "stylesheet", "font"} THEN <<"abort">> ELSE <<"continue">>

\* page.on('request', ...): the calls the handler makes on the request
RequestHandler(rt) ==
    IF rt \in {"image", "stylesheet", "font", "media"} THEN <<"abort">> ELSE <<"continue">>

\* The page of call s issues a resource request of type rt. With interception on,
\* the registered handler decides; without it the request goes out undecided.
PageRequest(s, rt) ==
    /\ sess[s].pc \in {"goto", "settle", "detect", "generateToken", "postSettle",
                       "waitForTurnstile", "executeBypass"}
    /\ net' = [type |-> rt,
               entry |-> sess[s].entry,
               intercepted |-> "interception" \in sess[s].installed,
               calls |-> IF "requestHandler" \in sess[s].installed
                         THEN RequestHandler(rt) ELSE <<>>]
    /\ UNCHANGED <<sess, sharedArgs, http, tok, inj, clock, cls>>

NextNet ==
    \/ \E e \in {"wrapper", "esm"}, p \in Proxies : Solve(1, e, p, NoTimeout)
    \/ Step(1)
    \/ \E rt \in ResourceTypes : PageRequest(1, rt)

\* one call at a time, with the resource requests of its page
SpecNet == Init /\ [][NextNet]_vars

\* --------------------------------------------------------- token synthesis
\* Largest step between successive draws of a random stream.
MaxStride == 3

Streams == [seed : 0..(RandRes - 1), stride : 0..MaxStride]

InitToken ==
    /\ sess = [s \in Sessions |-> Idle]
    /\ sharedArgs = ClassDefaultArgs
    /\ net = NoRequest
    /\ http = HttpIdle
    /\ tok \in [phase : {"input"}, entry : {"wrapper", "esm"}, rs : Streams,
                result : {NoResult}]
    /\ inj = InjIdle
    /\ clock = 0
    /\ cls = ClsIdle

\* the in-page function synthesizes the token, and solve() returns it
Synthesize ==
    /\ tok.phase = "input"
    /\ tok' = [tok EXCEPT !.phase = "done",
                          !.result = IF IsClass(tok.entry)
                                     THEN ClassSuccess(ClassMockToken(tok.rs), 0)
                                     ELSE EsmSuccess(EsmToken(tok.rs), 0)]
    /\ UNCHANGED <<sess, sharedArgs, net, http, inj, clock, cls>>

NextToken == Synthesize

\* token synthesis over every random stream
SpecToken == InitToken /\ [][NextToken]_vars

\* ---------------------------------------------------- error classification
\* Largest number of words of an error message.
MaxWords == 3

\* the words of the error messages: the three the catch block looks for, and
\* another one
Words == {"timeout", "net::ERR", "Turnstile not detected", "failed"}

Messages == UNION { [1..n -> Words] : n \in 0..MaxWords }

InitClassify ==
    /\ sess = [s \in Sessions |-> Idle]
    /\ sharedArgs = ClassDefaultArgs
    /\ net = NoRequest
    /\ http = HttpIdle
    /\ tok = TokIdle
    /\ inj = InjIdle
    /\ clock = 0
    /\ cls \in [phase : {"input"}, msg : Messages, result : {NoResult}]

\* the catch block of solveTurnstile builds the result for the error
Classify ==
    /\ cls.phase = "input"
    /\ cls' = [cls EXCEPT !.phase = "done", !.result = EsmFailure(cls.msg, 0)]
    /\ UNCHANGED <<sess, sharedArgs, net, http, tok, inj, clock>>

NextClassify == Classify

\* the catch block over every message
SpecClassify == InitClassify /\ [][NextClassify]_vars

\* --------------------------------------------------------- token injection
\* Largest number of form elements of a page.
MaxElems == 2

\* The name of a form element, as the sequence of its parts; name*="x" and
\* name.includes('x') are membership of the part.
CfResponseName == <<"cf", "-", "turnstile", "-", "response">>

ElementNames == { CfResponseName, <<"cf", "_token">>, <<"turnstile", "_x">>, <<"email">> }

\* the form elements a page may hold
Elements ==
    [tag : {"input"}, type : {"text", "hidden"}, name : ElementNames]
        \cup [tag : {"textarea"}, type : {"none"}, name : ElementNames]

\* the pages: their form elements in document order
Doms == UNION { [1..n -> Elements] : n \in 0..MaxElems }

\* input[name="cf-turnstile-response"]
IsCfResponseInput(el) == el.tag = "input" /\ el.name = CfResponseName

\* input[name*="cf"]
IsCfInput(el) == el.tag = "input" /\ Includes(el.name, "cf")

\* input[name*="turnstile"]
IsTurnstileInput(el) == el.tag = "input" /\ Includes(el.name, "turnstile")

\* input[type="hidden"] with input.name && (name.includes('cf') || name.includes('turnstile'))
IsHiddenNamedInput(el) ==
    /\ el.tag = "input" /\ el.type = "hidden"
    /\ el.name # <<>> /\ (Includes(el.name, "cf") \/ Includes(el.name, "turnstile"))

\* whether the element matches the selector
Matches(el, selector) ==
    CASE selector = "input[name=cf-turnstile-response]" -> IsCfResponseInput(el)
      [] selector = "input[name*=cf]" -> IsCfInput(el)
      [] selector = "input[name*=turnstile]" -> IsTurnstileInput(el)
      [] OTHER -> IsHiddenNamedInput(el)

\* document.querySelectorAll(selector): the positions of the matching elements,
\* in document order
QuerySelectorAll(dom, selector) ==
    SelectSeq([i \in 1..Len(dom) |-> i], LAMBDA i : Matches(dom[i], selector))

\* (mutant) the list starts with the inputs whose name contains cf
EsmInputsCfFirst(dom) ==
    QuerySelectorAll(dom, "input[name*=cf]") \o QuerySelectorAll(dom, "input[name=cf-turnstile-response]")
        \o QuerySelectorAll(dom, "input[name*=turnstile]")

\* solveTurnstile: const inputs = [...three querySelectorAll lists]
EsmInputs(dom) ==
    QuerySelectorAll(dom, "input[name=cf-turnstile-response]") \o QuerySelectorAll(dom, "input[name*=cf]")
        \o QuerySelectorAll(dom, "input[name*=turnstile]")

\* (mutant) only the input event is dispatched
EsmEventTypesInputOnly == <<"input">>

\* solveTurnstile: ['input', 'change'].forEach(...)
EsmEventTypes == <<"input", "change">>

\* solveTurnstile: the injection of the token; written: the positions whose
\* value was set, events: the events dispatched, in order
EsmInject(dom) ==
    LET inputs == EsmInputs(dom)
        hiddenInputs == QuerySelectorAll(dom, "input[type=hidden]")
    IN  IF Len(inputs) > 0
        THEN [written |-> <<inputs[1]>>,
              events |-> [k \in 1..Len(EsmEventTypes) |->
                            [target |-> inputs[1], type |-> EsmEventTypes[k]]]]
        ELSE [written |-> IF Len(hiddenInputs) > 0 THEN <<hiddenInputs[1]>> ELSE <<>>,
              events |-> <<>>]

\* executeBypass: tokenInputs[0].value = mockToken; dispatchEvent(new Event('input'))
ClassInject(dom) ==
    LET tokenInputs == QuerySelectorAll(dom, "input[name=cf-turnstile-response]")
    IN  IF Len(tokenInputs) > 0
        THEN [written |-> <<tokenInputs[1]>>,
              events |-> << [target |-> tokenInputs[1], type |-> "input"] >>]
        ELSE [written |-> <<>>, events |-> <<>>]

InitInject ==
    /\ sess = [s \in Sessions |-> Idle]
    /\ sharedArgs = ClassDefaultArgs
    /\ net = NoRequest
    /\ http = HttpIdle
    /\ tok = TokIdle
    /\ inj \in [phase : {"input"}, entry : {"wrapper", "esm"}, dom : Doms,
                written : {<<>>}, events : {<<>>}, returned : {FALSE}]
    /\ clock = 0
    /\ cls = ClsIdle

\* the in-page function injects the token and returns it
Inject ==
    /\ inj.phase = "input"
    /\ LET done == IF IsClass(inj.entry) THEN ClassInject(inj.dom) ELSE EsmInject(inj.dom)
       IN  inj' = [inj EXCEPT !.phase = "done", !.written = done.written,
                              !.events = done.events, !.returned = TRUE]
    /\ UNCHANGED <<sess, sharedArgs, net, http, tok, clock, cls>>

NextInject == Inject

\* token injection over every page
SpecInject == InitInject /\ [][NextInject]_vars

\* ------------------------------------------------------- the HTTP handlers
\* "express"   src/api/bypass.js, app.all('/api/bypass')
\* "vercelEsm" src/unnamed/part_000, export default handler
\* "vercelCjs" src/unnamed/part_001, module.exports handler
Handlers == {"express", "vercelEsm", "vercelCjs"}

Methods == {"GET", "POST", "OPTIONS", "PUT"}

\* the solveTurnstile each handler imports
HandlerEntry(h) == IF h = "vercelEsm" THEN "esm" ELSE "wrapper"

SitekeyValues ==
    { Undefined, Str(<<>>), Str(<<"0", "x", "4", "A">>), Str(<<"1", "x", "0">>),
      Str(<<"2", "x", "4">>), Str(<<"x">>), Str(<<"0">>), Num }

UrlValues ==
    { Undefined, Str(<<"https:", "//", "example.com">>), Str(<<"example.com">>), Num }

ProxyValues == { Undefined, Str(<<"http://proxy:8080">>) }

\* req.body: a parsed JSON body (every field undefined when there is none)
Params == [sitekey : SitekeyValues, url : UrlValues, proxy : ProxyValues]

\* req.query: a parsed query string holds no numbers
QueryParams ==
    [sitekey : SitekeyValues \ {Num}, url : UrlValues \ {Num}, proxy : ProxyValues]

Requests == [method : Methods, query : QueryParams, body : Params]

\* The parameter f of the request: part_000 reads the query of a GET and the
\* body otherwise; bypass.js and part_001 read req.query.f || req.body.f
Extract(h, req, f) ==
    IF h = "vercelEsm"
    THEN IF req.method = "GET" THEN req.query[f] ELSE req.body[f]
    ELSE Or(req.query[f], req.body[f])

\* new URL(url) throws unless url, as a string, is an absolute URL: a scheme
\* (of the URLs above, https:) followed by the rest; a number reads as digits
NewURLThrows(v) ==
    ~(v.kind = "string" /\ Len(v.chars) >= 2 /\ v.chars[1] \in {"http:", "https:"})

\* (mutant) any sitekey whose second character is x passes
SitekeyPrefixAnyDigit(cs) == Len(cs) >= 2 /\ cs[2] = "x"

\* sitekey.startsWith('0x') || sitekey.startsWith('1x')
SitekeyPrefixOk(cs) == StartsWith(cs, <<"0", "x">>) \/ StartsWith(cs, <<"1", "x">>)

\* What the handler does with a request before it would call the core:
\* "solve", or the response it sends instead.
Handle(h, method, sitekey, url) ==
    CASE method = "OPTIONS" -> "preflight"
      [] method # "OPTIONS" /\ h = "vercelEsm" /\ method \notin {"GET", "POST"} ->
            "methodNotAllowed"
      [] OTHER ->
            IF h = "vercelEsm" /\ sitekey.kind = "number" THEN "typeError"
            ELSE IF ~Truthy(sitekey) \/ ~Truthy(url) THEN "missing"
            ELSE IF NewURLThrows(url) THEN "invalidUrl"
            ELSE IF sitekey.kind # "string" THEN "typeError"
            ELSE IF ~SitekeyPrefixOk(sitekey.chars) THEN "invalidSitekey"
            ELSE "solve"

\* (mutant) the failure response is sent without res.status(500)
StatusOfFailedOk(h, what) ==
    CASE what = "preflight" -> IF h = "express" THEN 204 ELSE 200
      [] what = "methodNotAllowed" -> 405
      [] what \in {"missing", "invalidUrl", "invalidSitekey"} -> 400
      [] what \in {"token", "failed"} -> 200
      [] OTHER -> 500

\* the status of the response sent for each of these
StatusOf(h, what) ==
    CASE what = "preflight" -> IF h = "express" THEN 204 ELSE 200
      [] what = "methodNotAllowed" -> 405
      [] what \in {"missing", "invalidUrl", "invalidSitekey"} -> 400
      [] what = "token" -> 200
      [] OTHER -> 500

Response(h, what) == [status |-> StatusOf(h, what), body |-> what]

\* the timeout the handler passes to solveTurnstile
HandlerTimeout(h) == IF h = "vercelEsm" THEN VercelEsmTimeout ELSE ExpressTimeout

\* if (proxy) in solve(): the proxy handed to the core
ProxyParam(v) == IF Truthy(v) /\ v.kind = "string" THEN v.chars[1] ELSE NoProxy

\* A request arrives: the handler answers it, or validates it and calls the core.
Receive(h, req) ==
    /\ http.pc = "idle"
    /\ LET sitekey == Extract(h, req, "sitekey")
           url == Extract(h, req, "url")
           what == Handle(h, req.method, sitekey, url)
           served == [http EXCEPT !.handler = h, !.method = req.method,
                                  !.sitekey = sitekey, !.url = url]
       IN  \/ /\ what = "solve"
              /\ SolveCall(1, HandlerEntry(h), ProxyParam(Extract(h, req, "proxy")),
                           HandlerTimeout(h))
              /\ http' = [served EXCEPT !.pc = "awaitCore", !.coreCalls = @ + 1,
                                        !.timeout = HandlerTimeout(h)]
           \/ /\ what # "solve"
              /\ http' = [served EXCEPT !.pc = "sent",
                                        !.responses = Append(@, Response(h, what))]
              /\ UNCHANGED <<sess, sharedArgs>>
    /\ UNCHANGED <<net, tok, inj, clock, cls>>

\* what the handler sends once the await of solveTurnstile has settled
CoreResponse(outcome) ==
    IF outcome.kind = "thrown" THEN "internal"
    ELSE IF outcome.result.success /\ "token" \in DOMAIN outcome.result
            /\ outcome.result.token # <<>>
         THEN "token"
         ELSE "failed"

\* suggestions: [...] of the failure response of bypass.js
ExpressSuggestions ==
    << "Check if the sitekey is correct", "Verify the URL is accessible",
       "Try using a different user agent", "Check if the site uses Turnstile" >>

\* suggestions: [...] of the failure response of part_001
VercelCjsSuggestions ==
    << "Verify the sitekey is correct", "Check if the URL is accessible",
       "Try a different user agent", "Ensure the site uses Cloudflare Turnstile" >>

\* result.x || text: the field x of the result when it has a non-empty one
FieldOr(res, x, text) == IF x \in DOMAIN res /\ res[x] # <<>> THEN res[x] ELSE text

\* The JSON sent after the await of solveTurnstile: res.json({ success: true,
\* token, ... }), res.status(500).json({ success: false, error, details, ... }),
\* or the catch block's (bypass.js: errorHandler's) answer to a rejection.
CoreReply(h, outcome) ==
    LET what == CoreResponse(outcome)
        sent == Response(h, what)
    IN  CASE what = "token" ->
                [status |-> sent.status, body |-> what, success |-> TRUE,
                 token |-> outcome.result.token]
          [] what = "failed" /\ h = "express" ->
                [status |-> sent.status, body |-> what, success |-> FALSE,
                 error |-> FieldOr(outcome.result, "error", <<"Failed to solve Turnstile">>),
                 details |-> FieldOr(outcome.result, "details", <<"Unknown error occurred">>),
                 suggestions |-> ExpressSuggestions]
          [] what = "failed" /\ h = "vercelCjs" ->
                [status |-> sent.status, body |-> what, success |-> FALSE,
                 error |-> FieldOr(outcome.result, "error", <<"Turnstile solving failed">>),
                 details |-> FieldOr(outcome.result, "details", <<"Unknown error">>),
                 suggestions |-> VercelCjsSuggestions]
          [] what = "failed" /\ h = "vercelEsm" ->
                [status |-> sent.status, body |-> what, success |-> FALSE,
                 error |-> FieldOr(outcome.result, "error", <<"Failed to solve Turnstile">>),
                 details |-> IF "details" \in DOMAIN outcome.result
                             THEN outcome.result.details ELSE <<>>]
          [] OTHER ->
                [status |-> sent.status, body |-> what, success |-> FALSE,
                 error |-> IF h = "express" THEN <<"Internal Server Error">>
                           ELSE <<"Internal server error">>]

\* (mutant) after the response was sent the catch block sends its own
RespondTwice ==
    /\ http.pc = "awaitCore"
    /\ sess[1].pc = "done"
    /\ http' = [http EXCEPT !.pc = "sent", !.core = sess[1].outcome,
                            !.responses = @ \o << CoreReply(http.handler, sess[1].outcome),
                                                  CoreReply(http.handler, Thrown(<<>>)) >>]
    /\ sess' = [sess EXCEPT ![1] = Idle]
    /\ UNCHANGED <<sharedArgs, net, tok, inj, clock, cls>>

\* result = await solveTurnstile(...) has settled: the response is sent, and
\* the call's frame is gone
Respond ==
    /\ http.pc = "awaitCore"
    /\ sess[1].pc = "done"
    /\ http' = [http EXCEPT !.pc = "sent", !.core = sess[1].outcome,
                            !.responses = Append(@, CoreReply(http.handler, sess[1].outcome))]
    /\ sess' = [sess EXCEPT ![1] = Idle]
    /\ UNCHANGED <<sharedArgs, net, tok, inj, clock, cls>>

\* the request is over; the handler is ready for the next one
Finish ==
    /\ http.pc = "sent"
    /\ http' = HttpIdle
    /\ UNCHANGED <<sess, sharedArgs, net, tok, inj, clock, cls>>

NextHttp ==
    \/ \E h \in Handlers, req \in Requests : Receive(h, req)
    \/ Step(1)
    \/ Respond
    \/ Finish

\* the handlers, serving one request at a time
SpecHttp == Init /\ [][NextHttp]_vars

\* every awaited operation of the core settles, and the handler goes on when
\* its await of solveTurnstile has settled
SpecHttpLive == Init /\ [][NextHttp]_vars /\ WF_vars(Step(1)) /\ WF_vars(Respond)

\* =================================================================== claims
Done(s) == sess[s].pc = "done"
ReturnedBy(s) == Done(s) /\ sess[s].outcome.kind = "returned"
HasToken(res) == "token" \in DOMAIN res

\* C1: on every exit path of solve() the browser launched for the call has been
\* closed exactly once when solve() ends, and its handle is released whenever
\* the close itself did not fail; when the launch failed no close is attempted.
C1_ClosedExactlyOnce ==
    \A s \in Sessions :
        /\ sess[s].closeCalls <= 1
        /\ Done(s) =>
             /\ sess[s].closeCalls = IF sess[s].browser THEN 1 ELSE 0
             /\ (sess[s].browser /\ ~sess[s].closeFailed) => sess[s].handle = "closed"
             /\ ~sess[s].browser => sess[s].handle = "none"

\* a call that failed after the launch has ended with its browser closed
C1_Witness ==
    \E s \in Sessions :
        /\ Done(s) /\ sess[s].browser /\ ~sess[s].pending.success
        /\ sess[s].closeCalls = 1 /\ sess[s].handle = "closed"

\* C2: when browser.close() fails during cleanup, solve() still returns the
\* result that was computed before the cleanup.
C2_CleanupKeepsResult ==
    \A s \in Sessions :
        (Done(s) /\ sess[s].closeFailed) => sess[s].outcome = Returned(sess[s].pending)

\* C3: a failure raised at a pipeline stage is never re-raised: solve() ends
\* normally and returns the failure result with success = false.
C3_FailureIsReturned ==
    \A s \in Sessions :
        (Done(s) /\ ~sess[s].pending.success) =>
            /\ sess[s].outcome.kind = "returned"
            /\ sess[s].outcome.result.success = FALSE

\* none of the checks of the detector is true of the document
NoSignal(d) ==
    /\ ~d.iframe /\ ~d.script /\ d.dataSitekey = "none"
    /\ ~d.cfInput /\ ~d.windowTurnstile

\* a call has returned the not-detected failure without running the acquisition
NotDetectedResult(s) ==
    /\ sess[s].outcome.kind = "returned"
    /\ sess[s].outcome.result.success = FALSE
    /\ sess[s].outcome.result.error = MsgNotDetected
    /\ sess[s].acquired = 0

\* C4 (as stated): whenever detection ran on a document without a detection
\* signal, solve() returns success = false with the not-detected error and the
\* acquisition is never executed.
C4_NoSignalNoAcquisition ==
    \A s \in Sessions :
        (Done(s) /\ sess[s].detected # "notRun" /\ NoSignal(sess[s].doc)) =>
            NotDetectedResult(s)

\* C4 (amended): in the ES-module solveTurnstile, whenever detection ran on a
\* document for which none of its five checks is true, the call returns
\* success = false with the error 'Turnstile not detected on the page' and the
\* token is never generated.
C4_EsmNoSignalNoAcquisition ==
    \A s \in Sessions :
        (sess[s].entry = "esm" /\ sess[s].detected # "notRun" /\ NoSignal(sess[s].doc)) =>
            /\ sess[s].acquired = 0
            /\ sess[s].pc \in {"close", "done"}
            /\ sess[s].pending = EsmFailure(MsgNotDetected, sess[s].pending.executionTime)
            /\ Done(s) => NotDetectedResult(s)

C4_Witness ==
    \E s \in Sessions :
        /\ sess[s].entry = "esm" /\ Done(s) /\ sess[s].detected = "negative"
        /\ NoSignal(sess[s].doc) /\ NotDetectedResult(s)

\* the --proxy-server arguments among the launch arguments
ProxyArgsIn(args) == SelectSeq(args, LAMBDA a : a[1] = "--proxy-server")

\* C6: the launch arguments of a request hold only that request's own proxy.
C6_OwnProxyOnly ==
    \A s \in Sessions :
        sess[s].pc = "launch" =>
            ProxyArgsIn(sess[s].launchArgs) =
                IF sess[s].proxy = NoProxy THEN <<>> ELSE <<ProxyArg(sess[s].proxy)>>

\* C7: a returned result has success = true exactly when it carries a non-empty
\* token; a failed result carries no token, and a success is only reported after
\* the acquisition produced that token.
C7_SuccessIffToken ==
    \A s \in Sessions :
        ReturnedBy(s) =>
            LET res == sess[s].outcome.result IN
            /\ res.success <=> (HasToken(res) /\ res.token # <<>>)
            /\ ~res.success => ~HasToken(res)
            /\ res.success => (sess[s].acquired = 1 /\ res.token = sess[s].token)

C7_Witness ==
    \E s \in Sessions :
        /\ ReturnedBy(s) /\ sess[s].outcome.result.success
        /\ sess[s].acquired = 1 /\ Len(sess[s].outcome.result.token) > 0

IdentityConfig == {"userAgent", "headers", "viewport"}
Interception == {"interception", "requestHandler"}
Navigated(s) ==
    sess[s].pc \in {"goto", "settle", "detect", "generateToken", "postSettle",
                    "waitForTurnstile", "executeBypass"}

\* C9 (as stated): navigation never starts before the identity configuration
\* (user agent, headers, viewport) and the interception policy are installed.
C9_ConfiguredBeforeNavigation ==
    \A s \in Sessions :
        Navigated(s) => (IdentityConfig \cup Interception) \subseteq sess[s].installed

\* what is installed on the page when the ES-module pipeline awaits stage pc
EsmInstalledAt(pc) ==
    CASE pc \in {"launch", "newPage", "setUserAgent"} -> {}
      [] pc = "setExtraHTTPHeaders" -> {"userAgent"}
      [] pc = "setViewport" -> {"userAgent", "headers"}
      [] pc = "setRequestInterception" -> IdentityConfig
      [] OTHER -> IdentityConfig \cup Interception

\* C9 (amended): the stages run in pipeline order; in the ES-module
\* solveTurnstile navigation starts only after user agent, headers, viewport and
\* the interception policy are installed, while TurnstileSolver.solve installs
\* the user agent only before it navigates.
C9_StagesInOrder ==
    \A s \in Sessions :
        /\ (sess[s].entry = "esm" /\ sess[s].pc \notin {"close", "done"}) =>
               sess[s].installed = EsmInstalledAt(sess[s].pc)
        /\ (IsClass(sess[s].entry) /\ Navigated(s)) => sess[s].installed = {"userAgent"}
        /\ (sess[s].pc \notin {"idle", "launch", "close", "done"}) => sess[s].browser
        /\ Navigated(s) =>
               /\ sess[s].detected # "notRun" =>
                      sess[s].pc \in {"generateToken", "postSettle", "executeBypass"}
               /\ sess[s].acquired > 0 => sess[s].pc = "postSettle"
        /\ (sess[s].entry = "esm" /\ sess[s].acquired > 0) => sess[s].detected = "positive"

C9_Witness ==
    \E s \in Sessions :
        /\ sess[s].entry = "esm" /\ sess[s].pc = "goto"
        /\ sess[s].installed = IdentityConfig \cup Interception

HexChar == {"0", "1", "2", "3", "4", "5", "6", "7", "8", "9", "a", "b", "c", "d", "e", "f"}

\* ^0x[0-9a-f]{64}\.[0-9a-f]{32}$
TokenFormat(tk) ==
    /\ Len(tk) = 99
    /\ tk[1] = "0" /\ tk[2] = "x"
    /\ \A i \in 3..66 : tk[i] \in HexChar
    /\ tk[67] = "."
    /\ \A i \in 68..99 : tk[i] \in HexChar

\* C8: the token of every successful result is "0x", 64 characters from 0-9a-f,
\* ".", and 32 characters from 0-9a-f, whatever the random source draws.
C8_TokenFormat ==
    (tok.phase = "done" /\ tok.result.success) => TokenFormat(tok.result.token)

\* a token synthesized from a stream of highest draws
C8_Witness ==
    /\ tok.phase = "done" /\ tok.result.success
    /\ tok.rs.stride = 0 /\ tok.rs.seed = RandRes - 1
    /\ tok.result.token[3] = "f"

\* C10 (as stated): every resource request of a session's page is aborted when
\* its type is image, stylesheet, font or media and continued otherwise, by
\* exactly one decision.
C10_EveryRequestDecided ==
    net.type # "none" =>
        net.calls = IF net.type \in {"image", "stylesheet", "font", "media"}
                    THEN <<"abort">> ELSE <<"continue">>

\* C10 (amended): in the ES-module solveTurnstile every resource request of the
\* page is intercepted and gets exactly one decision, abort for image,
\* stylesheet, font and media and continue otherwise; a page of
\* TurnstileSolver.solve has no interception and its requests go out undecided.
C10_EsmRequestsDecided ==
    /\ (net.type # "none" /\ net.entry = "esm") =>
           /\ net.intercepted
           /\ net.calls = IF net.type \in {"image", "stylesheet", "font", "media"}
                          THEN <<"abort">> ELSE <<"continue">>
    /\ (net.type # "none" /\ IsClass(net.entry)) =>
           (~net.intercepted /\ net.calls = <<>>)

C10_Witness ==
    net.entry = "esm" /\ net.type = "media" /\ net.calls = <<"abort">>

\* the request carries a sitekey that starts with 0x or 1x and an absolute URL
SitekeyStartsOk(v) ==
    /\ v.kind = "string" /\ Len(v.chars) >= 2
    /\ v.chars[1] \in {"0", "1"} /\ v.chars[2] = "x"
RequestOk == SitekeyStartsOk(http.sitekey) /\ ~NewURLThrows(http.url)

Rejected ==
    /\ http.pc = "sent" /\ Len(http.responses) = 1
    /\ http.responses[1].status \in {400, 405, 500}
    /\ http.coreCalls = 0

\* C5 (as stated): a request whose sitekey does not start with 0x or 1x, or
\* whose url is not an absolute URL (or misses either), is answered with a
\* rejection, and the core is not invoked for it.
C5_InvalidRejected ==
    (http.pc # "idle" /\ ~RequestOk) => Rejected

\* C5 (amended): for such a request the core is never invoked, and unless the
\* request is a CORS preflight (OPTIONS), which is answered 200 or 204 without
\* looking at the parameters, the response is an error (400, 405 or 500).
C5_InvalidNeverSolved ==
    (http.pc # "idle" /\ ~RequestOk) =>
        /\ http.coreCalls = 0
        /\ sess[1].pc = "idle"
        /\ http.pc = "sent"
        /\ Len(http.responses) = 1
        /\ IF http.method = "OPTIONS"
           THEN http.responses[1].status \in {200, 204}
           ELSE http.responses[1].status \in {400, 405, 500}

C5_Witness ==
    /\ http.pc = "sent" /\ http.method = "GET" /\ http.coreCalls = 0
    /\ http.sitekey = Str(<<"2", "x", "4">>) /\ ~NewURLThrows(http.url)
    /\ http.responses = <<Response(http.handler, "invalidSitekey")>>

\* ------------------------------------------------------------ C11 .. C20
\* the call ended by an error raised outside the program: by the browser
\* launch, a page operation, the navigation or the close
ExternalFault(s) ==
    \/ sess[s].cause.msg \in LaunchFaults \cup PageFaults \cup GotoFaults
    \/ sess[s].closeFailed

NavTimedOut(s) == sess[s].cause = [stage |-> "goto", msg |-> MsgNavTimeout]

\* C11 (as stated): when the navigation exceeds the timeout, solve() returns
\* success = false with error "Timeout" and a non-empty list of suggestions.
C11_TimeoutWithSuggestions ==
    \A s \in Sessions :
        (Done(s) /\ NavTimedOut(s) /\ ~sess[s].closeFailed) =>
            /\ ReturnedBy(s)
            /\ LET res == sess[s].outcome.result IN
               /\ ~res.success
               /\ res.error = <<"Timeout">>
               /\ "suggestions" \in DOMAIN res
               /\ res.suggestions # <<>>

\* C11 (amended): when the navigation exceeds the timeout, the result solve()
\* computes has success = false and no suggestions; the ES-module
\* solveTurnstile reports 'Timeout: The page took too long to load' with the
\* details 'Try increasing the timeout ...', TurnstileSolver.solve the message
\* of the navigation error and no details. It is the result returned, except
\* that TurnstileSolver.solve throws when the close then rejects.
C11_TimeoutResult ==
    \A s \in Sessions :
        (Done(s) /\ NavTimedOut(s)) =>
            LET res == sess[s].pending IN
            /\ ~res.success
            /\ "suggestions" \notin DOMAIN res
            /\ "token" \notin DOMAIN res
            /\ IF sess[s].entry = "esm"
               THEN res.error = MsgTimeoutError /\ res.details = DetailsTimeout
               ELSE res.error = MsgNavTimeout /\ "details" \notin DOMAIN res
            /\ IF IsClass(sess[s].entry) /\ sess[s].closeFailed
               THEN sess[s].outcome.kind = "thrown"
               ELSE sess[s].outcome = Returned(res)

C11_Witness ==
    \E s \in Sessions :
        /\ ReturnedBy(s) /\ NavTimedOut(s) /\ sess[s].entry = "esm"
        /\ sess[s].outcome.result.error = MsgTimeoutError

\* a deadline of the call was exceeded: the navigation's, or the one of the
\* detection wait of TurnstileSolver
DeadlineExceeded(s) ==
    \/ NavTimedOut(s)
    \/ IsClass(sess[s].entry) /\ sess[s].detected = "negative"

FourSignals(d) ==
    {x \in {"frame", "script", "attribute", "api"} :
        \/ x = "frame" /\ d.iframe
        \/ x = "script" /\ d.script
        \/ x = "attribute" /\ d.dataSitekey # "none"
        \/ x = "api" /\ d.windowTurnstile}

\* C14 (as stated): detection is positive exactly when one of the four signals
\* is true of the document.
C14_PositiveIffFourSignals ==
    \A s \in Sessions :
        sess[s].detected # "notRun" =>
            (sess[s].detected = "positive" <=> FourSignals(sess[s].doc) # {})

\* C14 (amended): the check of the ES-module solveTurnstile is positive exactly
\* when one of five things is true of the document: the four signals (the
\* attribute being data-sitekey on any element) or an input named
\* cf-turnstile-response; the wait of TurnstileSolver is satisfied exactly when
\* window.turnstile, the challenge iframe or a div with data-sitekey is there.
C14_PositiveIffChecks ==
    \A s \in Sessions :
        sess[s].detected # "notRun" =>
            LET d == sess[s].doc IN
            IF sess[s].entry = "esm"
            THEN sess[s].detected = "positive" <=>
                     (FourSignals(d) # {} \/ d.cfInput)
            ELSE sess[s].detected = "positive" <=>
                     (FourSignals(d) \cap {"frame", "api"} # {} \/ d.dataSitekey = "div")

C14_Witness ==
    \E s \in Sessions :
        /\ sess[s].entry = "esm" /\ sess[s].detected = "positive"
        /\ FourSignals(sess[s].doc) = {} /\ sess[s].doc.cfInput

\* C15: on a document with exactly one of the four signals, and without a
\* fault of a stage, the acquisition runs and solve() returns success = true
\* with a token of the format.
C15_OneSignalSucceeds ==
    \A s \in Sessions :
        (Done(s) /\ sess[s].detected # "notRun" /\ ~ExternalFault(s)
            /\ Cardinality(FourSignals(sess[s].doc)) = 1 /\ ~sess[s].doc.cfInput) =>
                /\ sess[s].acquired = 1
                /\ ReturnedBy(s)
                /\ sess[s].outcome.result.success
                /\ TokenFormat(sess[s].outcome.result.token)

\* C16: when the page has a completion callback and calling it with the token
\* fails, the acquisition still completes and the token is returned.
C16_CallbackFailureTolerated ==
    \A s \in Sessions :
        (Done(s) /\ sess[s].acquired = 1 /\ sess[s].doc.callback = "throws"
            /\ ~ExternalFault(s)) =>
                /\ ReturnedBy(s)
                /\ sess[s].outcome.result.success
                /\ Len(sess[s].outcome.result.token) > 0

\* the six categories of the taxonomy
Categories ==
    { <<"Timeout">>, <<"NetworkError">>, <<"ContextDestroyed">>,
      <<"ChallengeNotDetected">>, <<"AcquisitionFailed">>, <<"Unknown">> }

\* C19 (as stated): the error of every failed result is one of the six
\* categories.
C19_ErrorIsCategory ==
    \A s \in Sessions :
        (ReturnedBy(s) /\ ~sess[s].outcome.result.success) =>
            sess[s].outcome.result.error \in Categories

\* C19 (amended): the error of a failed result is the message of the error that
\* was raised, except that the ES-module solveTurnstile reports 'Timeout: The
\* page took too long to load' for a message containing 'timeout' and 'Network
\* error' for one containing 'net::ERR'; a launch failure is reported by its own
\* message.
C19_ErrorIsMessage ==
    \A s \in Sessions :
        (ReturnedBy(s) /\ ~sess[s].outcome.result.success) =>
            LET err == sess[s].outcome.result.error
                msg == sess[s].cause.msg
            IN  /\ msg # <<>>
                /\ IF sess[s].entry = "esm" /\ msg = MsgNavTimeout THEN err = MsgTimeoutError
                   ELSE IF sess[s].entry = "esm" /\ msg = MsgNetErr THEN err = MsgNetworkError
                   ELSE err = msg
                /\ sess[s].cause.stage = "launch" => err = MsgLaunch

C19_Witness ==
    \E s \in Sessions :
        /\ ReturnedBy(s) /\ IsClass(sess[s].entry) /\ sess[s].cause.stage = "launch"
        /\ sess[s].outcome.result = ClassFailure(MsgLaunch, 0)

\* the name of the element matches the challenge-response naming pattern
MatchesPattern(el) == \E i \in 1..Len(el.name) : el.name[i] \in {"cf", "turnstile"}

\* the positions of the page's elements of each tier
VisibleInputs(dom) ==
    {i \in 1..Len(dom) : dom[i].tag = "input" /\ dom[i].type # "hidden" /\ MatchesPattern(dom[i])}
HiddenInputs(dom) ==
    {i \in 1..Len(dom) : dom[i].tag = "input" /\ dom[i].type = "hidden" /\ MatchesPattern(dom[i])}
Textareas(dom) ==
    {i \in 1..Len(dom) : dom[i].tag = "textarea" /\ MatchesPattern(dom[i])}

\* the tier the token must be written to: the highest one that has a match
TargetTier(dom) ==
    IF VisibleInputs(dom) # {} THEN VisibleInputs(dom)
    ELSE IF HiddenInputs(dom) # {} THEN HiddenInputs(dom)
    ELSE Textareas(dom)

\* C17 (as stated): the token is written to one element of the highest tier
\* that has a match (visible input, else hidden input, else textarea), to no
\* element when no tier has one, and it is returned in all cases.
C17_WrittenByTier ==
    inj.phase = "done" =>
        /\ inj.returned
        /\ IF TargetTier(inj.dom) = {}
           THEN inj.written = <<>>
           ELSE Len(inj.written) = 1 /\ inj.written[1] \in TargetTier(inj.dom)

\* the first of the positions ps, 0 when there is none
First(ps) == IF ps = {} THEN 0 ELSE CHOOSE i \in ps : \A j \in ps : i <= j

\* the positions of the inputs with that name, or with that part in the name
NamedCfResponse(dom) ==
    {i \in 1..Len(dom) : dom[i].tag = "input" /\ dom[i].name = CfResponseName}
NameHas(dom, part) ==
    {i \in 1..Len(dom) :
        dom[i].tag = "input" /\ (\E k \in 1..Len(dom[i].name) : dom[i].name[k] = part)}

\* the element the ES-module solveTurnstile writes the token to
EsmTarget(dom) ==
    IF NamedCfResponse(dom) # {} THEN First(NamedCfResponse(dom))
    ELSE IF NameHas(dom, "cf") # {} THEN First(NameHas(dom, "cf"))
    ELSE First(NameHas(dom, "turnstile"))

\* C17 (amended): the ES-module solveTurnstile writes the token to one input,
\* visible or hidden alike: the first input named cf-turnstile-response, else
\* the first input whose name contains cf, else the first whose name contains
\* turnstile; TurnstileSolver writes it to the first input named
\* cf-turnstile-response only; a textarea is never written, every other
\* element is left unchanged, and the token is returned in all cases.
C17_WrittenByName ==
    inj.phase = "done" =>
        LET target == IF inj.entry = "esm" THEN EsmTarget(inj.dom)
                      ELSE First(NamedCfResponse(inj.dom))
        IN  /\ inj.returned
            /\ inj.written = IF target = 0 THEN <<>> ELSE <<target>>
            /\ \A k \in 1..Len(inj.written) : inj.dom[inj.written[k]].tag = "input"

\* a hidden input named cf-turnstile-response is written although a visible
\* input whose name matches comes first
C17_Witness ==
    /\ inj.phase = "done" /\ inj.entry = "esm" /\ Len(inj.dom) = 2
    /\ inj.dom[1] = [tag |-> "input", type |-> "text", name |-> <<"cf", "_token">>]
    /\ inj.dom[2] = [tag |-> "input", type |-> "hidden", name |-> CfResponseName]
    /\ inj.written = <<2>>

\* the types of the events dispatched on position i, in order
EventTypesOn(i) ==
    LET on == SelectSeq(inj.events, LAMBDA e : e.target = i)
    IN  [k \in 1..Len(on) |-> on[k].type]

\* C18 (as stated): on a visible input that gets the token the events input,
\* change, keydown and keyup are dispatched; on a hidden input that gets it no
\* event is dispatched.
C18_EventsByVisibility ==
    inj.phase = "done" =>
        \A k \in 1..Len(inj.written) :
            LET i == inj.written[k] IN
            IF inj.dom[i].type = "hidden"
            THEN EventTypesOn(i) = <<>>
            ELSE EventTypesOn(i) = <<"input", "change", "keydown", "keyup">>

\* C18 (amended): on the input that gets the token, visible or hidden alike,
\* the ES-module solveTurnstile dispatches input and then change, and
\* TurnstileSolver dispatches input only; keydown and keyup are never
\* dispatched, and no event is dispatched on any other element.
C18_EventsOnTarget ==
    inj.phase = "done" =>
        /\ \A k \in 1..Len(inj.written) :
              EventTypesOn(inj.written[k]) =
                  IF inj.entry = "esm" THEN <<"input", "change">> ELSE <<"input">>
        /\ \A k \in 1..Len(inj.events) :
              /\ inj.events[k].type \notin {"keydown", "keyup"}
              /\ inj.written = <<inj.events[k].target>>
        /\ inj.written = <<>> => inj.events = <<>>

C18_Witness ==
    /\ inj.phase = "done" /\ inj.entry = "esm" /\ Len(inj.written) = 1
    /\ inj.dom[inj.written[1]].type = "hidden"
    /\ EventTypesOn(inj.written[1]) = <<"input", "change">>

\* C12: the deadline of the navigation of a session is the timeout the HTTP
\* handler passed with the request.
C12_NavigationUsesPassedTimeout ==
    (http.pc = "awaitCore" /\ sess[1].pc = "goto") => sess[1].timeout = http.timeout

\* the response sent for the result the core returned
CoreReturned == http.pc = "sent" /\ http.core.kind = "returned"
LastResponse == http.responses[Len(http.responses)]

\* C20 (as stated): for a result returned by the core the status is 200 when
\* success is true and 500 when it is false, and the 500 response carries the
\* error, details and suggestions of that result.
C20_ResultEchoed ==
    CoreReturned =>
        LET res == http.core.result IN
        IF res.success
        THEN LastResponse.status = 200
        ELSE /\ LastResponse.status = 500
             /\ LastResponse.error = res.error
             /\ "details" \in DOMAIN res /\ LastResponse.details = res.details
             /\ "suggestions" \in DOMAIN res
             /\ LastResponse.suggestions = res.suggestions

\* C20 (amended): for a result returned by the core the status is 200 when
\* success is true and 500 when it is false; the 500 response carries the error
\* of the result, and its details when it has them (the ES-module result),
\* else the text 'Unknown error occurred' (bypass.js) or 'Unknown error'
\* (part_001); the suggestions are not the result's: bypass.js and part_001
\* send their own fixed list of four, part_000 sends none.
C20_StatusAndError ==
    CoreReturned =>
        LET res == http.core.result
            resp == LastResponse
        IN  /\ Len(http.responses) = 1
            /\ resp.status = IF res.success THEN 200 ELSE 500
            /\ resp.success = res.success
            /\ res.success => resp.token = res.token
            /\ ~res.success =>
                 /\ resp.error = res.error
                 /\ "suggestions" \notin DOMAIN res
                 /\ CASE http.handler = "vercelEsm" ->
                            resp.details = res.details /\ "suggestions" \notin DOMAIN resp
                      [] http.handler = "express" ->
                            /\ "details" \notin DOMAIN res
                            /\ resp.details = <<"Unknown error occurred">>
                            /\ Len(resp.suggestions) = 4
                      [] OTHER ->
                            /\ "details" \notin DOMAIN res
                            /\ resp.details = <<"Unknown error">>
                            /\ Len(resp.suggestions) = 4

C20_Witness ==
    /\ CoreReturned /\ http.handler = "express" /\ ~http.core.result.success
    /\ LastResponse.status = 500 /\ LastResponse.error = MsgNavTimeout
    /\ Len(LastResponse.suggestions) = 4

\* ------------------------------------------------------------ C21 .. C26
\* the call has failed: an error has reached the catch block of solve()
Failed(s) == sess[s].cause # NoCause

\* the stages of the call that have been started
Attempts(s) == <<sess[s].launches, sess[s].navigations, sess[s].acquired>>

\* C21: within one call of solve() nothing is retried: at most one browser is
\* launched, at most one navigation and at most one acquisition are performed,
\* and once an error has reached the catch block the call only cleans up: the
\* next step is the close of the browser or the return, and no stage is
\* started again.
C21_NoRetry ==
    /\ [](\A s \in Sessions :
            /\ sess[s].launches <= 1
            /\ sess[s].navigations <= 1
            /\ sess[s].acquired <= 1
            /\ sess[s].navigations = 1 => sess[s].launches = 1
            /\ sess[s].acquired = 1 => sess[s].navigations = 1
            /\ Failed(s) => (sess[s].pc \in {"close", "done"} /\ ~sess[s].pending.success))
    /\ [][\A s \in Sessions :
            (Failed(s) /\ sess[s].pc = "close" /\ sess'[s] # sess[s]) =>
                /\ sess'[s].pc = "done"
                /\ Attempts(s)' = Attempts(s)]_vars

\* a call whose navigation failed has ended after one launch, one navigation
\* and no acquisition
C21_Witness ==
    \E s \in Sessions :
        /\ Done(s) /\ sess[s].cause.stage = "goto"
        /\ Attempts(s) = <<1, 1, 0>> /\ sess[s].closeCalls = 1

\* C22: every result solve() returns, a success or a failure, carries an
\* executionTime, and it is a number greater than or equal to zero: the time
\* that passed on the clock between the start of the call and the return or
\* the catch.
C22_ExecutionTimePopulated ==
    \A s \in Sessions :
        /\ ReturnedBy(s) =>
              LET res == sess[s].outcome.result IN
              /\ "executionTime" \in DOMAIN res
              /\ res.executionTime \in Nat
              /\ res.executionTime <= clock - sess[s].startTime
        /\ sess[s].pc = "close" =>
              sess[s].pending.executionTime \in 0..(clock - sess[s].startTime)

\* a failure returned with the two ticks that passed since the call began
C22_Witness ==
    \E s \in Sessions :
        /\ ReturnedBy(s) /\ ~sess[s].outcome.result.success
        /\ sess[s].startTime = 1
        /\ sess[s].outcome.result.executionTime = 2

\* C23: the core is invoked only for a request whose method is GET or POST; a
\* request with any other method is answered without a call of solveTurnstile.
C23_CoreOnlyForGetAndPost ==
    http.coreCalls > 0 => http.method \in {"GET", "POST"}

\* what each detection looks for, of the document as it is now
SignalNow(e, d) ==
    IF e = "esm"
    THEN d.iframe \/ d.script \/ d.dataSitekey # "none" \/ d.cfInput \/ d.windowTurnstile
    ELSE d.windowTurnstile \/ d.iframe \/ d.dataSitekey = "div"

\* C24 (as stated): detection is positive when a signal was true at any moment
\* between the load and the end of the wait window, and negative only when no
\* signal was true during the whole window.
C24_PositiveIffSignalInWindow ==
    \A s \in Sessions :
        sess[s].detected # "notRun" =>
            (sess[s].detected = "positive" <=> sess[s].signalled)

\* C24 (amended): the ES-module solveTurnstile waits a fixed delay and then
\* evaluates its checks once, and the wait of TurnstileSolver ends when a poll
\* finds its predicate true: detection is positive exactly when a signal is
\* true of the document at that evaluation. A signal that was true during the
\* window and is gone at the evaluation gives a negative detection; without
\* any signal during the window detection is negative.
C24_PositiveIffSignalAtCheck ==
    \A s \in Sessions :
        sess[s].detected # "notRun" =>
            /\ sess[s].detected = "positive" <=> SignalNow(sess[s].entry, sess[s].doc)
            /\ ~sess[s].signalled => sess[s].detected = "negative"

\* a signal that was there during the delay and is gone when the checks run
C24_Witness ==
    \E s \in Sessions :
        /\ sess[s].entry = "esm" /\ sess[s].detected = "negative"
        /\ sess[s].signalled /\ sess[s].doc = NoDoc

\* the category the precedence of the claim gives a message
CategoryOf(msg) ==
    IF \E i \in 1..Len(msg) : msg[i] = "timeout" THEN "Timeout"
    ELSE IF \E i \in 1..Len(msg) : msg[i] = "net::ERR" THEN "NetworkError"
    ELSE IF \E i \in 1..Len(msg) : msg[i] = "Turnstile not detected"
         THEN "ChallengeNotDetected"
         ELSE "Generic"

\* the categories whose error and details the result carries
CategoriesOf(res, msg) ==
    {c \in {"Timeout", "NetworkError", "ChallengeNotDetected", "Generic"} :
        \/ /\ c = "Timeout"
           /\ res.error = <<"Timeout:", "The", "page", "took", "too", "long", "to", "load">>
           /\ res.details = <<"Try", "increasing", "the", "timeout">>
        \/ /\ c = "NetworkError"
           /\ res.error = <<"Network", "error">>
           /\ res.details = <<"Cannot", "access", "the", "URL">>
        \/ /\ c = "ChallengeNotDetected"
           /\ res.error = msg
           /\ res.details = <<"The", "page", "might", "not", "be", "using", "Turnstile">>
        \/ /\ c = "Generic"
           /\ res.error = msg
           /\ res.details = msg}

\* C25: the catch block of solveTurnstile classifies every message, by the
\* message alone and with a fixed precedence: a message containing 'timeout'
\* gets the timeout error and details even when it also contains 'net::ERR',
\* otherwise one containing 'net::ERR' gets the network error and details,
\* otherwise one containing 'Turnstile not detected' gets the not-detected
\* details, and every other message is reported as it is; the result carries
\* exactly one of the four.
C25_ClassifiedByPrecedence ==
    cls.phase = "done" =>
        /\ ~cls.result.success
        /\ CategoriesOf(cls.result, cls.msg) = {CategoryOf(cls.msg)}

\* a message of a network failure that is also a timeout is classified Timeout
C25_Witness ==
    /\ cls.phase = "done"
    /\ cls.msg = <<"net::ERR", "timeout">>
    /\ CategoriesOf(cls.result, cls.msg) = {"Timeout"}

====
